---- MODULE Spec2Model ----
(***************************************************************************)
(* A model of SynapseBot, the airdrop automation tool: the task classifier *)
(* (AirdropManager.get_task_type), the campaign selector                   *)
(* (AirdropManager.select_airdrop), the completion store                   *)
(* (src/utils/helpers.py), the task strategies (BaseTask, TelegramTask),   *)
(* the secondary-tab discipline of BrowserManager.new_tab_action and the   *)
(* run of main().                                                          *)
(*                                                                         *)
(* Python strings are TLA+ strings; Python's None is the empty tuple and a *)
(* present value x is the one-element tuple <<x>>.                         *)
(***************************************************************************)
EXTENDS Naturals, Sequences, FiniteSets, TLC

VARIABLES
    task_texts,          \* the displayed texts of the tasks handed to get_task_type
    task_types,          \* task_types[i]: None, or <<tag>> once task i is classified
    cards,               \* the campaign cards of the listing page: each None (a card
                         \* without a name element) or <<name>>
    requested,           \* args.airdrop: None or <<name>>
    completed_airdrops,  \* AirdropManager.completed_airdrops, the in-memory mapping
    selection,           \* None, or <<r>>: what the last select_airdrop call did
    doc,                 \* the persisted document data/completed_airdrops.json
    marked,              \* history: marked[n] is None, or <<status>> of the last
                         \* mark_airdrop_completed(n, status) call
    last_mark,           \* history: None, or <<r>>: the last mark_airdrop_completed call
    pc,                  \* where the run of main() stands
    env_file,            \* whether .env exists in the working directory
    base_env,            \* BASE_DIR/.env, the file create_env_template writes:
                         \* "same" (the working directory is BASE_DIR, so it is
                         \* the file env_file describes), "present" or "absent"
    api_key,             \* whether OPENAI_API_KEY is set in the environment
    template,            \* None, or <<r>>: what main's create_env_template call did
    browser,             \* "none", "open" or "closed": the BrowserManager's driver
    aborted,             \* whether a fault reached main's except clause
    success,             \* None, or <<v>>: what complete_all_tasks returned
    windows,             \* driver.window_handles: the open browser windows
    focus,               \* driver.current_window_handle
    task_call,           \* None, or <<r>>: what the last complete_task call did
    procs,               \* procs[p]: where process p stands in its
                         \* mark_airdrop_completed call, with its arguments and locals
    writes               \* history: the processes in the order they rewrote the document

classifyVars == <<task_texts, task_types>>
selectVars == <<cards, requested, completed_airdrops, selection>>
storeVars == <<doc, marked, last_mark>>
mainVars == <<pc, env_file, base_env, api_key, template, browser, aborted, success>>
taskVars == <<windows, focus, task_call>>
concVars == <<procs, writes>>
vars == <<task_texts, task_types, cards, requested, completed_airdrops, selection,
          doc, marked, last_mark, pc, env_file, base_env, api_key, template, browser, aborted, success,
          windows, focus, task_call, procs, writes>>

None == <<>>
Some(x) == <<x>>

(***************************************************************************)
(* Python string operations.                                               *)
(***************************************************************************)
UpperLetters == "ABCDEFGHIJKLMNOPQRSTUVWXYZ"
LowerLetters == "abcdefghijklmnopqrstuvwxyz"

\* str.lower() on one character: an upper-case letter maps to its lower-case
\* letter, every other character to itself.
LowerTable ==
    [c \in {SubSeq(UpperLetters, i, i) : i \in 1..Len(UpperLetters)} |->
        LET i == CHOOSE j \in 1..Len(UpperLetters) : SubSeq(UpperLetters, j, j) = c
        IN  SubSeq(LowerLetters, i, i)]

LowerChar(c) == IF c \in DOMAIN LowerTable THEN LowerTable[c] ELSE c

\* s.lower()
RECURSIVE lower(_)
lower(s) ==
    IF Len(s) = 0 THEN ""
    ELSE LowerChar(SubSeq(s, 1, 1)) \o lower(SubSeq(s, 2, Len(s)))

\* Python's `needle in hay` on strings: needle occurs as a contiguous substring.
StrIn(needle, hay) ==
    \E i \in 0..(Len(hay) - Len(needle)) : SubSeq(hay, i + 1, i + Len(needle)) = needle

(***************************************************************************)
(* Task classifier: AirdropManager.get_task_type.                          *)
(***************************************************************************)
\* A classifier that forgets to lower-case the text.
get_task_type_case_sensitive(task_text) ==
    IF StrIn("visit", task_text) /\ StrIn("airdrop page", task_text) THEN "visit"
    ELSE IF StrIn("telegram", task_text) THEN "telegram"
    ELSE "unknown"

get_task_type(task_text) ==
    LET t == lower(task_text)
    IN  IF StrIn("visit", t) /\ StrIn("airdrop page", t) THEN "visit"
        ELSE IF StrIn("telegram", t) THEN "telegram"
        ELSE "unknown"

\* The displayed task texts the classifier is exercised on: concatenations of at
\* most MaxTextParts fragments, each fragment in one of its spellings (the same
\* words in different letter case).
MaxTextParts == 3

TextFragments ==
    << <<"join telegram ", "Join TELEGRAM ">>,
       <<"visit ", "Visit ">>,
       <<"airdrop page ", "Airdrop Page ">> >>

FragmentKinds == 1..Len(TextFragments)
Spellings == {1, 2}

RECURSIVE BuildText(_, _)
BuildText(kinds, spellings) ==
    IF Len(kinds) = 0 THEN ""
    ELSE TextFragments[Head(kinds)][Head(spellings)]
            \o BuildText(Tail(kinds), Tail(spellings))

SeqsUpTo(S, n) == UNION {[1..k -> S] : k \in 0..n}

\* Two tasks whose texts are spelled from the same fragments, each in its own
\* letter case.
ClassifyInit ==
    \E kinds \in SeqsUpTo(FragmentKinds, MaxTextParts) :
        \E s1, s2 \in [1..Len(kinds) -> Spellings] :
            /\ task_texts = <<BuildText(kinds, s1), BuildText(kinds, s2)>>
            /\ task_types = <<None, None>>

ClassifyIdle ==
    /\ task_texts = <<>>
    /\ task_types = <<>>

\* The orchestrator classifies task i.
ClassifyTask(i) ==
    /\ i \in DOMAIN task_texts
    /\ task_types[i] = None
    /\ task_types' = [task_types EXCEPT ![i] = Some(get_task_type(task_texts[i]))]
    /\ UNCHANGED <<task_texts, selectVars, storeVars, mainVars, taskVars, concVars>>

ClassifyNext == \E i \in {1, 2} : ClassifyTask(i)

\* C7: every classified text that contains "telegram" after lower-casing is
\* tagged 'telegram', whatever else it contains: the chat-join check comes
\* before the visit check.
C7_TelegramTakesPrecedence ==
    \A i \in DOMAIN task_texts :
        (task_types[i] # None /\ StrIn("telegram", lower(task_texts[i])))
            => task_types[i] = Some("telegram")

\* C8: two classified task texts that are equal after lower-casing carry the
\* same task-type tag.
C8_CaseInsensitive ==
    \A i, j \in DOMAIN task_texts :
        (task_types[i] # None /\ task_types[j] # None
            /\ lower(task_texts[i]) = lower(task_texts[j]))
            => task_types[i] = task_types[j]

C8_Witness ==
    /\ task_texts # <<>>
    /\ task_texts[1] # task_texts[2]
    /\ lower(task_texts[1]) = lower(task_texts[2])
    /\ task_types[1] = Some("telegram")
    /\ task_types[2] = Some("telegram")

(***************************************************************************)
(* The completion mapping: campaign name -> record.                        *)
(***************************************************************************)
CampaignNames == {"AlphaDrop", "Beta", "Gamma"}
\* The campaigns that have completion records in the runs explored.
RecordedNames == {"AlphaDrop", "Beta"}
Statuses == {"success", "partial"}

\* The mappings whose records carry the given completion dates.
Mappings(dates) ==
    UNION {[S -> [completed_date : dates, status : Statuses]] : S \in SUBSET RecordedNames}

EmptyMapping == <<>>

\* The document on disk: missing, present with content json.load rejects, or
\* present holding a JSON object.
MissingDoc == [kind |-> "missing", data |-> EmptyMapping]
MalformedDoc == [kind |-> "malformed", data |-> EmptyMapping]
ObjectDoc(m) == [kind |-> "object", data |-> m]

\* What opening the document for reading does when the file exists: "ok", or
\* "oserror" (open() raises an OSError that is not FileNotFoundError, such as
\* PermissionError).
ReadOutcomes == {"ok", "oserror"}
\* What the full rewrite does: "ok"; "open_fails" (open(..., 'w') raises, the
\* document is untouched); "dump_fails" (the file was truncated by open and
\* json.dump raises before the content is complete).
WriteOutcomes == {"ok", "open_fails", "dump_fails"}

(***************************************************************************)
(* Completion store: src/utils/helpers.py.                                 *)
(***************************************************************************)
\* load_json(file_path, default): never raises.
load_json(d, rd, default) ==
    IF d.kind = "missing" THEN default
    ELSE IF rd # "ok" THEN default
    ELSE IF d.kind = "malformed" THEN default
    ELSE d.data

\* save_json(data, file_path): the returned flag and the document afterwards.
save_json(data, d, wr) ==
    IF wr = "ok" THEN [ret |-> TRUE, doc |-> ObjectDoc(data)]
    ELSE IF wr = "open_fails" THEN [ret |-> FALSE, doc |-> d]
    ELSE [ret |-> FALSE, doc |-> MalformedDoc]

get_completed_airdrops(d, rd) == load_json(d, rd, EmptyMapping)

\* m with m[k] set to v, k added to the keys when it is not one.
SetItem(m, k, v) == [x \in DOMAIN m \cup {k} |-> IF x = k THEN v ELSE m[x]]

\* A mark that keeps the record of a name that is already present.
mark_airdrop_completed_keep_old(airdrop_name, status, date, d, rd, wr) ==
    LET completed == load_json(d, rd, EmptyMapping)
    IN  save_json(IF airdrop_name \in DOMAIN completed THEN completed
                  ELSE SetItem(completed, airdrop_name,
                               [completed_date |-> date, status |-> status]),
                  d, wr)

\* mark_airdrop_completed(airdrop_name, status); date is the clock reading
\* time.strftime formats.
mark_airdrop_completed(airdrop_name, status, date, d, rd, wr) ==
    LET completed == get_completed_airdrops(d, rd)
    IN  save_json(SetItem(completed, airdrop_name,
                          [completed_date |-> date, status |-> status]),
                  d, wr)

is_airdrop_completed(airdrop_name, d, rd) ==
    airdrop_name \in DOMAIN get_completed_airdrops(d, rd)

\* The clock readings 0..MaxDate.
MaxDate == 1

StoreInit ==
    /\ doc \in {MissingDoc, MalformedDoc} \cup {ObjectDoc(m) : m \in Mappings({0})}
    /\ marked = [n \in RecordedNames |-> None]
    /\ last_mark = None

StoreIdle ==
    /\ doc = MissingDoc
    /\ marked = <<>>
    /\ last_mark = None

\* One call of mark_airdrop_completed(airdrop_name, status).
MarkAirdropCompleted(airdrop_name, status, date, rd, wr) ==
    LET r == mark_airdrop_completed(airdrop_name, status, date, doc, rd, wr)
        before == load_json(doc, rd, EmptyMapping)
    IN  /\ doc' = r.doc
        /\ marked' = [marked EXCEPT ![airdrop_name] = Some(status)]
        /\ last_mark' = Some([name |-> airdrop_name, status |-> status, ret |-> r.ret,
                              present_before |-> airdrop_name \in DOMAIN before,
                              status_before |->
                                  IF airdrop_name \in DOMAIN before
                                  THEN Some(before[airdrop_name].status) ELSE None,
                              size_before |-> Cardinality(DOMAIN before)])
        /\ UNCHANGED <<classifyVars, selectVars, mainVars, taskVars, concVars>>

\* The store when neither the read nor the rewrite of the document faults.
StoreOkNext ==
    \E n \in RecordedNames, st \in Statuses, date \in 0..MaxDate :
        MarkAirdropCompleted(n, st, date, "ok", "ok")

\* The store under calls whose read or rewrite of the document may fault.
StoreNext ==
    \E n \in RecordedNames, st \in Statuses, date \in 0..MaxDate :
        \E rd \in ReadOutcomes, wr \in WriteOutcomes :
            MarkAirdropCompleted(n, st, date, rd, wr)

\* The campaign names that are keys of the persisted document.
Keys(d) == IF d.kind = "object" THEN DOMAIN d.data ELSE {}

\* What a fresh load of the store yields.
FreshLoad == load_json(doc, "ok", EmptyMapping)

\* C5: a fresh load holds, for each marked name, a record whose status is the
\* status of the last call for that name, and marking a name that was already
\* present leaves the number of entries unchanged.
C5_LastMarkWins ==
    /\ \A n \in DOMAIN marked :
          marked[n] # None =>
              (n \in DOMAIN FreshLoad /\ FreshLoad[n].status = marked[n][1])
    /\ (last_mark # None /\ last_mark[1].present_before)
          => Cardinality(DOMAIN FreshLoad) = last_mark[1].size_before

\* A name that was present with one status was marked again with another, and
\* the other marked name still has its record.
C5_Witness ==
    /\ last_mark # None
    /\ last_mark[1].present_before
    /\ last_mark[1].status_before # Some(last_mark[1].status)
    /\ \A n \in DOMAIN marked : marked[n] # None
    /\ Cardinality(DOMAIN FreshLoad) = Cardinality(RecordedNames)

\* save_json, line 62: open(file_path, 'w') creates the file or truncates it;
\* an empty file is not valid JSON.
save_json_open(d) == MalformedDoc

\* The number of characters json.dump(m, f, indent=2) writes: "{}" for the
\* empty mapping, else the braces and, for each key, its name, the status and
\* 75 characters of quotes, field names, the 19-character date, indentation
\* and separators.
RECURSIVE EntriesLen(_, _)
EntriesLen(m, ks) ==
    IF ks = {} THEN 0
    ELSE LET k == CHOOSE x \in ks : TRUE
         IN  Len(k) + Len(m[k].status) + 75 + EntriesLen(m, ks \ {k})

TextLen(m) == 2 + EntriesLen(m, DOMAIN m)

\* save_json, lines 63-64: json.dump and the close of the file write the text
\* of data from offset 0 of the handle.  d is the file at that moment: empty
\* since this handle's open, or holding the whole text another handle wrote
\* since; a longer text keeps its tail behind the new one, which is not valid
\* JSON.
save_json_dump(data, d) ==
    IF d.kind = "object" /\ TextLen(d.data) > TextLen(data) THEN MalformedDoc
    ELSE ObjectDoc(data)

\* The processes that share the document.
Procs == {1, 2}

ConcInit ==
    /\ doc \in {MissingDoc, MalformedDoc} \cup {ObjectDoc(m) : m \in Mappings({0})}
    /\ marked = <<>>
    /\ last_mark = None
    /\ procs \in [Procs -> [pc : {"load"}, name : RecordedNames, status : Statuses,
                            completed : {EmptyMapping}, opens_at_load : {0},
                            dumps_at_load : {0}, ret : {None}]]
    /\ procs[1].name # procs[2].name
    /\ writes = <<>>

ConcIdle ==
    /\ procs = <<>>
    /\ writes = <<>>

\* Process p runs `completed = get_completed_airdrops()`; opens_at_load and
\* dumps_at_load are the numbers of opens for writing and of finished writes
\* of the document that came before.
ConcLoad(p) ==
    /\ procs[p].pc = "load"
    /\ procs' = [procs EXCEPT ![p].pc = "open",
                              ![p].completed = get_completed_airdrops(doc, "ok"),
                              ![p].opens_at_load =
                                  Cardinality({q \in Procs : procs[q].pc \in {"dump", "done"}}),
                              ![p].dumps_at_load = Len(writes)]
    /\ UNCHANGED <<writes, classifyVars, selectVars, storeVars, mainVars, taskVars>>

\* A process that reads the document again right before it opens it for
\* writing, instead of using the mapping it loaded earlier.
ConcOpenReloading(p) ==
    /\ procs[p].pc = "open"
    /\ procs' = [procs EXCEPT ![p].pc = "dump",
                              ![p].completed =
                                  SetItem(get_completed_airdrops(doc, "ok"), procs[p].name,
                                          [completed_date |-> MaxDate,
                                           status |-> procs[p].status])]
    /\ doc' = save_json_open(doc)
    /\ UNCHANGED <<writes, marked, last_mark, classifyVars, selectVars, mainVars, taskVars>>

\* Process p sets its key in the mapping it loaded (the clock reads MaxDate)
\* and enters save_json, whose open(file_path, 'w') truncates the document.
ConcOpen(p) ==
    /\ procs[p].pc = "open"
    /\ procs' = [procs EXCEPT ![p].pc = "dump",
                              ![p].completed =
                                  SetItem(procs[p].completed, procs[p].name,
                                          [completed_date |-> MaxDate,
                                           status |-> procs[p].status])]
    /\ doc' = save_json_open(doc)
    /\ UNCHANGED <<writes, marked, last_mark, classifyVars, selectVars, mainVars, taskVars>>

\* Process p's json.dump and close write its mapping; save_json returns True.
ConcDump(p) ==
    /\ procs[p].pc = "dump"
    /\ doc' = save_json_dump(procs[p].completed, doc)
    /\ procs' = [procs EXCEPT ![p].pc = "done", ![p].ret = Some(TRUE)]
    /\ writes' = Append(writes, p)
    /\ UNCHANGED <<marked, last_mark, classifyVars, selectVars, mainVars, taskVars>>

ConcNext == \E p \in Procs : ConcLoad(p) \/ ConcOpen(p) \/ ConcDump(p)

\* Whether the document holds the record process p wrote.
HasRecordOf(p) ==
    /\ procs[p].name \in Keys(doc)
    /\ doc.data[procs[p].name] = [completed_date |-> MaxDate, status |-> procs[p].status]

\* C17: once both processes have returned: when both loaded before either
\* opened the document for writing, the document does not hold both records
\* (it is not valid JSON, or it holds the record of the process that wrote
\* last and not the other's); when the last writer loaded after the first
\* write was finished, it holds both.
C17_LostUpdate ==
    (\A p \in Procs : procs[p].pc = "done") =>
        (/\ (\A p \in Procs : procs[p].opens_at_load = 0) =>
               (/\ ~ (HasRecordOf(1) /\ HasRecordOf(2))
                /\ doc.kind = "object" =>
                      (HasRecordOf(writes[2]) /\ ~ HasRecordOf(writes[1])))
         /\ procs[writes[2]].dumps_at_load = 1 =>
               (HasRecordOf(1) /\ HasRecordOf(2)))

\* Both processes loaded the empty store before either wrote, both returned
\* True, and the document holds one record only: the last writer's.
C17_Witness ==
    /\ \A p \in Procs : procs[p].pc = "done" /\ procs[p].opens_at_load = 0
                         /\ procs[p].completed = [n \in {procs[p].name} |->
                                [completed_date |-> MaxDate, status |-> procs[p].status]]
                         /\ procs[p].ret = Some(TRUE)
    /\ Keys(doc) = {procs[writes[2]].name}
    /\ HasRecordOf(writes[2])
    /\ procs[writes[1]].name \notin Keys(doc)

\* C15: no step of the program removes a key of the persisted document: a name
\* that is a key before a mark_airdrop_completed call, faulting or not, is a
\* key after it.
C15_RecordsNeverDeleted ==
    [][\A n \in Keys(doc) : n \in Keys(doc')]_vars

(***************************************************************************)
(* Campaign selector: AirdropManager.get_available_airdrops and            *)
(* AirdropManager.select_airdrop.                                          *)
(***************************************************************************)
\* Python truthiness of an optional string: None and "" are falsy.
Truthy(opt) == opt # None /\ opt[1] # ""

\* The info dictionaries of the cards that have a name; 'element' is the card's
\* position on the page.  time_left and reward are informational and default
\* to "Unknown"; they play no part in the selection and are left out.
RECURSIVE ParseCards(_, _)
ParseCards(cs, i) ==
    IF i > Len(cs) THEN <<>>
    ELSE IF cs[i] = None THEN ParseCards(cs, i + 1)
    ELSE <<[name |-> cs[i][1], element |-> i]>> \o ParseCards(cs, i + 1)

get_available_airdrops(cs) == ParseCards(cs, 1)

\* A match that forgets to lower-case both sides.
MatchesCaseSensitive(airdrop_name, name) == StrIn(airdrop_name, name)

\* airdrop_name.lower() in airdrop['name'].lower()
Matches(airdrop_name, name) == StrIn(lower(airdrop_name), lower(name))

\* The positions in airdrops whose name the requested name matches.
MatchingPositions(airdrops, airdrop_name) ==
    {i \in DOMAIN airdrops : Matches(airdrop_name, airdrops[i].name)}

Min(S) == CHOOSE m \in S : \A n \in S : m <= n

\* A resolution whose fallback takes the last candidate (airdrops[-1]).
ResolveCandidateLastFallback(airdrops, airdrop_name) ==
    IF Truthy(airdrop_name) /\ MatchingPositions(airdrops, airdrop_name[1]) # {}
    THEN Min(MatchingPositions(airdrops, airdrop_name[1]))
    ELSE Len(airdrops)

\* The position of the candidate select_airdrop resolves to (airdrops is not
\* empty): the first match of a truthy requested name, else the first listed.
ResolveCandidate(airdrops, airdrop_name) ==
    IF Truthy(airdrop_name) /\ MatchingPositions(airdrops, airdrop_name[1]) # {}
    THEN Min(MatchingPositions(airdrops, airdrop_name[1]))
    ELSE 1

\* A selector without the already-completed check.
select_airdrop_no_skip(cs, completed, airdrop_name, click_ok) ==
    LET airdrops == get_available_airdrops(cs)
    IN  IF Len(airdrops) = 0 THEN [ret |-> None, clicks |-> <<>>]
        ELSE LET sel == airdrops[ResolveCandidate(airdrops, airdrop_name)]
             IN  [ret |-> IF click_ok THEN Some(sel.name) ELSE None,
                  clicks |-> <<sel.element>>]

\* select_airdrop: ret is the returned name or None, clicks the page elements
\* browser.click was called on; click_ok is whether that click succeeds.
select_airdrop(cs, completed, airdrop_name, click_ok) ==
    LET airdrops == get_available_airdrops(cs)
    IN  IF Len(airdrops) = 0 THEN [ret |-> None, clicks |-> <<>>]
        ELSE LET sel == airdrops[ResolveCandidate(airdrops, airdrop_name)]
             IN  IF sel.name \in DOMAIN completed
                 THEN [ret |-> None, clicks |-> <<>>]
                 ELSE [ret |-> IF click_ok THEN Some(sel.name) ELSE None,
                       clicks |-> <<sel.element>>]

\* A selector that records the campaign it returns: it sets the name in the
\* manager's mapping and rewrites the document from that mapping.
select_airdrop_store_recording(cs, completed, d, airdrop_name, click_ok) ==
    LET r == select_airdrop(cs, completed, airdrop_name, click_ok)
    IN  IF r.ret = None THEN [completed |-> completed, doc |-> d]
        ELSE LET m == SetItem(completed, r.ret[1],
                              [completed_date |-> 0, status |-> "success"])
             IN  [completed |-> m, doc |-> save_json(m, d, "ok").doc]

\* The completion store after select_airdrop: completed is the manager's
\* self.completed_airdrops, doc the persisted document.  The method reads the
\* mapping once (line 147), assigns it nowhere and opens no file.
select_airdrop_store(cs, completed, d, airdrop_name, click_ok) ==
    [completed |-> completed, doc |-> d]

MaxCards == 2

\* The --airdrop arguments of the one-process runs.
SessionRequests == {None, Some("zeta"), Some("alpha")}

RequestedNames == {None, Some(""), Some("zeta"), Some("alpha"), Some("ETA"),
                   Some("a"), Some("Beta")}

\* The texts of the cards' name elements; Selenium gives "" for an element
\* that is not displayed.
CardNames == CampaignNames \cup {""}

Pages == SeqsUpTo({None} \cup {Some(n) : n \in CardNames}, MaxCards)

SelectInit ==
    /\ cards \in Pages
    /\ requested \in RequestedNames
    /\ completed_airdrops \in Mappings({0})
    /\ selection = None

SelectIdle ==
    /\ cards = <<>>
    /\ requested = None
    /\ completed_airdrops = <<>>
    /\ selection = None

\* One call of select_airdrop(args.airdrop) on the listing page.
SelectAirdrop(click_ok) ==
    /\ selection = None
    /\ selection' = Some([click_ok |-> click_ok] @@
                          select_airdrop(cards, completed_airdrops, requested, click_ok))
    /\ LET s == select_airdrop_store(cards, completed_airdrops, doc, requested, click_ok)
       IN  /\ completed_airdrops' = s.completed
           /\ doc' = s.doc
    /\ UNCHANGED <<cards, requested, marked, last_mark>>
    /\ UNCHANGED <<classifyVars, mainVars, taskVars, concVars>>

SelectNext == \E click_ok \in BOOLEAN : SelectAirdrop(click_ok)

\* The candidates of the listing page, as select_airdrop sees them.
ListedAirdrops == get_available_airdrops(cards)

\* The listed positions whose name contains the requested name, both lower-cased.
CaseInsensitiveMatches ==
    IF requested = None THEN {}
    ELSE {i \in DOMAIN ListedAirdrops :
            StrIn(lower(requested[1]), lower(ListedAirdrops[i].name))}

\* C1: when the candidate the call resolves to (the matched one, or the
\* first-listed one) is a key of the completion mapping, select_airdrop returns
\* None and clicks no campaign element.
C1_CompletedIsSkipped ==
    (/\ selection # None
     /\ Len(ListedAirdrops) > 0
     /\ ListedAirdrops[IF Truthy(requested) /\ CaseInsensitiveMatches # {}
                       THEN Min(CaseInsensitiveMatches) ELSE 1].name
            \in DOMAIN completed_airdrops)
        => (selection[1].ret = None /\ selection[1].clicks = <<>>)

\* The sole candidate is already recorded, and the call returned None.
C1_Witness ==
    /\ selection # None
    /\ Len(ListedAirdrops) = 1
    /\ ListedAirdrops[1].name \in DOMAIN completed_airdrops
    /\ selection[1].ret = None
    /\ selection[1].clicks = <<>>

\* C2 as stated: a requested name that matches exactly one candidate makes
\* select_airdrop return that candidate's name.
C2_UniqueMatchIsReturned ==
    (selection # None /\ Cardinality(CaseInsensitiveMatches) = 1)
        => selection[1].ret = Some(ListedAirdrops[Min(CaseInsensitiveMatches)].name)

\* C2 amended: with exactly one matching candidate, select_airdrop returns that
\* candidate's name when the candidate is not a key of the completion mapping
\* and the click on it succeeds, and None otherwise; it never returns another
\* candidate's name, and it clicks no other candidate.
C2_UniqueMatchOrNone ==
    (selection # None /\ Cardinality(CaseInsensitiveMatches) = 1)
        => LET m == ListedAirdrops[Min(CaseInsensitiveMatches)]
           IN  /\ selection[1].ret =
                    IF m.name \notin DOMAIN completed_airdrops /\ selection[1].click_ok
                    THEN Some(m.name) ELSE None
               /\ selection[1].clicks \in {<<>>, <<m.element>>}

\* The only match is listed second, is spelled in another letter case than the
\* request, and is the one returned.
C2_Witness ==
    /\ selection # None
    /\ CaseInsensitiveMatches = {2}
    /\ ~ StrIn(requested[1], ListedAirdrops[2].name)
    /\ selection[1].ret = Some(ListedAirdrops[2].name)

\* C3 as stated: a requested name that matches no candidate of a non-empty
\* list makes select_airdrop return the first-listed candidate's name.
C3_FallbackIsReturned ==
    (/\ selection # None
     /\ requested # None
     /\ Len(ListedAirdrops) > 0
     /\ CaseInsensitiveMatches = {})
        => selection[1].ret = Some(ListedAirdrops[1].name)

\* C3 amended: with no matching candidate in a non-empty list, select_airdrop
\* resolves to the first-listed candidate: it returns that name when the
\* candidate is not a key of the completion mapping and the click on it
\* succeeds, and None otherwise; it never returns another candidate's name.
C3_FallbackOrNone ==
    (/\ selection # None
     /\ requested # None
     /\ Len(ListedAirdrops) > 0
     /\ CaseInsensitiveMatches = {})
        => LET first == ListedAirdrops[1]
           IN  /\ selection[1].ret =
                    IF first.name \notin DOMAIN completed_airdrops /\ selection[1].click_ok
                    THEN Some(first.name) ELSE None
               /\ selection[1].clicks \in {<<>>, <<first.element>>}

\* Scenario 3: candidates Beta, Gamma and the request "zeta" select Beta.
C3_Witness ==
    /\ selection # None
    /\ cards = <<Some("Beta"), Some("Gamma")>>
    /\ requested = Some("zeta")
    /\ selection[1].ret = Some("Beta")

(***************************************************************************)
(* Task strategies: BaseTask and TelegramTask, with                        *)
(* BrowserManager.new_tab_action and get_ai_assistance.                    *)
(*                                                                         *)
(* What the page and the services do is the environment of a call:         *)
(*   an element lookup is "found", "absent" (NoSuchElementException; an    *)
(*     empty list for find_elements) or "fault" (any other exception);     *)
(*   the click on the task's link "fails", or succeeds and stays in the    *)
(*     "same_tab" or opens one "new_tab";                                  *)
(*   the callback run in the new tab "returns", "faults", or faults        *)
(*     because the tab went away ("closes_tab");                           *)
(*   the advisory call is "ok", finds no API key ("no_key") or has the API *)
(*     call raise ("api_raises").                                          *)
(***************************************************************************)
LookupOutcomes == {"found", "absent", "fault"}
ClickOutcomes == {"fails", "same_tab", "new_tab"}
ActionOutcomes == {"returns", "faults", "closes_tab"}
AiOutcomes == {"ok", "no_key", "api_raises"}

MainWindow == "main"
NewTab == "tab"

\* An advisory call without the try/except around the API call.
get_ai_assistance_unguarded(ai) ==
    IF ai = "no_key"
    THEN [raised |-> FALSE, value |-> "AI assistance unavailable - missing API key"]
    ELSE IF ai = "api_raises"
    THEN [raised |-> TRUE, value |-> ""]
    ELSE [raised |-> FALSE, value |-> "response text"]

\* get_ai_assistance(prompt): the string returned.  The text of a successful
\* response and the text of the API's exception stand for any such text.
get_ai_assistance(ai) ==
    IF ai = "no_key"
    THEN [raised |-> FALSE, value |-> "AI assistance unavailable - missing API key"]
    ELSE IF ai = "api_raises"
    THEN [raised |-> FALSE, value |-> "Error getting AI assistance: " \o "api error"]
    ELSE [raised |-> FALSE, value |-> "response text"]

\* BrowserManager.click on a link of the task: the returned flag and the
\* windows afterwards.
ClickLink(w, click) ==
    [ret |-> click # "fails",
     windows |-> IF click = "new_tab" THEN w \cup {NewTab} ELSE w]

\* A new_tab_action without the try/except around the callback: a fault of the
\* callback leaves at once.
new_tab_action_unguarded(w, f, action, callback_ret) ==
    LET others == w \ {f}
    IN  IF others = {}
        THEN [raised |-> FALSE, ret |-> None, ran |-> FALSE, windows |-> w, focus |-> f]
        ELSE LET new_window == CHOOSE h \in others : TRUE
                 open == IF action = "closes_tab" THEN w \ {new_window} ELSE w
             IN  IF action # "returns"
                 THEN [raised |-> TRUE, ret |-> None, ran |-> TRUE,
                       windows |-> open, focus |-> new_window]
                 ELSE [raised |-> FALSE, ret |-> callback_ret, ran |-> TRUE,
                       windows |-> open \ {new_window}, focus |-> f]

\* BrowserManager.new_tab_action(action_callback) with the windows w and the
\* focus f: switch to the first other window, run the callback, close the
\* window when more than one is open, switch back.  driver.close() raises when
\* the focused window is gone while others are open.
new_tab_action(w, f, action, callback_ret) ==
    LET others == w \ {f}
    IN  IF others = {}
        THEN [raised |-> FALSE, ret |-> None, ran |-> FALSE, windows |-> w, focus |-> f]
        ELSE LET new_window == CHOOSE h \in others : TRUE
                 open == IF action = "closes_tab" THEN w \ {new_window} ELSE w
                 result == IF action = "returns" THEN callback_ret ELSE None
             IN  IF Cardinality(open) > 1 /\ new_window \notin open
                 THEN [raised |-> TRUE, ret |-> None, ran |-> TRUE,
                       windows |-> open, focus |-> new_window]
                 ELSE [raised |-> FALSE, ret |-> result, ran |-> TRUE,
                       windows |-> IF Cardinality(open) > 1
                                   THEN open \ {new_window} ELSE open,
                       focus |-> f]

\* BaseTask.expand_task: a missing expand button counts as already expanded;
\* the result of the click is not looked at.
expand_task(lookup) ==
    [raised |-> FALSE, ret |-> lookup # "fault", clicked |-> lookup = "found"]

\* BaseTask.check_task_completion: only NoSuchElementException of the marker
\* lookup is caught; the confirm button, when found, is clicked and True is
\* returned.
check_task_completion(marker, confirm) ==
    IF marker = "found"
    THEN [raised |-> FALSE, ret |-> TRUE, confirm_clicked |-> FALSE, marker_lookups |-> 1]
    ELSE IF marker = "fault"
    THEN [raised |-> TRUE, ret |-> FALSE, confirm_clicked |-> FALSE, marker_lookups |-> 1]
    ELSE [raised |-> FALSE, ret |-> confirm = "found",
          confirm_clicked |-> confirm = "found", marker_lookups |-> 1]

\* What a call that stopped before the link was looked up reports: the record
\* of a call holds what it returned, the lookups it made with what they gave,
\* the clicks it made, and the windows and focus it left.
NotReached(strategy, e, w, f) ==
    [strategy |-> strategy, ret |-> FALSE, expanded |-> FALSE, link |-> "none",
     ai |-> "not_called", advice |-> None, link_clicked |-> FALSE, click |-> "none",
     tab_opened |-> FALSE, action |-> "none", check_reached |-> FALSE,
     marker |-> "none", confirm |-> "none", confirm_clicked |-> FALSE,
     expand_clicked |-> FALSE, marker_lookups |-> 0, check_raised |-> FALSE,
     windows |-> w, focus |-> f]

\* The part of complete_task shared by both strategies once the link is
\* found: click it, act in the new tab, check completion; any exception is
\* caught and gives False.
ClickActCheck(log, e, w, f, callback_ret) ==
    LET c == ClickLink(w, e.click)
        t == new_tab_action(c.windows, f, e.action, callback_ret)
        k == check_task_completion(e.marker, e.confirm)
        clicked == [log EXCEPT !.link_clicked = TRUE, !.click = e.click,
                               !.tab_opened = (e.click = "new_tab"),
                               !.action = IF t.ran THEN e.action ELSE "none",
                               !.windows = t.windows, !.focus = t.focus]
    IN  IF t.raised THEN clicked
        ELSE [clicked EXCEPT !.check_reached = TRUE,
                             !.marker = e.marker,
                             !.confirm = IF e.marker = "absent" THEN e.confirm ELSE "none",
                             !.confirm_clicked = k.confirm_clicked,
                             !.marker_lookups = k.marker_lookups,
                             !.check_raised = k.raised,
                             !.ret = (~ k.raised /\ k.ret)]

\* BaseTask.complete_task; human_like_browsing, the callback, returns None.
base_complete_task(e, w, f) ==
    LET x == expand_task(e.expand)
        log == [NotReached("base", e, w, f) EXCEPT !.expanded = x.ret,
                                                   !.expand_clicked = x.clicked]
    IN  IF ~ x.ret THEN log
        ELSE IF e.link # "found" THEN [log EXCEPT !.link = e.link]
        ELSE ClickActCheck([log EXCEPT !.link = e.link], e, w, f, None)

\* TelegramTask.complete_task; telegram_action, the callback, returns True.
telegram_complete_task(e, w, f) ==
    LET x == expand_task(e.expand)
        log == [NotReached("telegram", e, w, f) EXCEPT !.expanded = x.ret,
                                                       !.expand_clicked = x.clicked]
        a == get_ai_assistance(e.ai)
    IN  IF ~ x.ret THEN log
        ELSE IF e.link # "found" THEN [log EXCEPT !.link = e.link]
        ELSE IF a.raised THEN [log EXCEPT !.link = e.link, !.ai = e.ai]
        ELSE ClickActCheck([log EXCEPT !.link = e.link, !.ai = e.ai,
                                       !.advice = Some(a.value)],
                           e, w, f, Some(TRUE))

\* The environments of a call of complete_task on an object of the class
\* named by strategy ("base": BaseTask, "telegram": TelegramTask); the
\* advisory service plays no part in BaseTask.complete_task.
TaskEnvs(strategy) ==
    [expand : LookupOutcomes, link : LookupOutcomes,
     ai : IF strategy = "telegram" THEN AiOutcomes ELSE {"ok"},
     click : ClickOutcomes, action : ActionOutcomes,
     marker : LookupOutcomes, confirm : LookupOutcomes]

TaskInit ==
    /\ windows = {MainWindow}
    /\ focus = MainWindow
    /\ task_call = None

TaskIdle ==
    /\ windows = {}
    /\ focus = MainWindow
    /\ task_call = None

\* One call of BaseTask(browser).complete_task(task_element), made directly
\* on the object: the manager's task_handlers holds no BaseTask.
BaseCompleteTask(e) ==
    /\ LET r == base_complete_task(e, windows, focus)
       IN  /\ windows' = r.windows
           /\ focus' = r.focus
           /\ task_call' = Some(r)
    /\ UNCHANGED <<classifyVars, selectVars, storeVars, mainVars, concVars>>

\* One call of TelegramTask(browser).complete_task(task_element).
TelegramCompleteTask(e) ==
    /\ LET r == telegram_complete_task(e, windows, focus)
       IN  /\ windows' = r.windows
           /\ focus' = r.focus
           /\ task_call' = Some(r)
    /\ UNCHANGED <<classifyVars, selectVars, storeVars, mainVars, concVars>>

TaskNext ==
    \/ \E e \in TaskEnvs("base") : BaseCompleteTask(e)
    \/ \E e \in TaskEnvs("telegram") : TelegramCompleteTask(e)

\* C6: after any complete_task call, of either strategy, only the primary
\* window is open and the focus is on it.
C6_NoTabLeaked ==
    task_call # None => (windows = {MainWindow} /\ focus = MainWindow)

\* A chat-join call whose click opened a tab, whose callback faulted in it,
\* and which then returned False.
C6_Witness ==
    /\ task_call # None
    /\ task_call[1].strategy = "telegram"
    /\ task_call[1].tab_opened
    /\ task_call[1].action = "faults"
    /\ task_call[1].check_reached
    /\ ~ task_call[1].ret
    /\ windows = {MainWindow}

\* C9: when the advisory call of the chat-join strategy fails, it yields a
\* string, and complete_task goes on to click the link and to run the
\* completion check.
C9_AdvisoryFailureIsAbsorbed ==
    (/\ task_call # None
     /\ task_call[1].strategy = "telegram"
     /\ task_call[1].ai \in {"no_key", "api_raises"})
        => (/\ task_call[1].advice # None
            /\ task_call[1].link_clicked
            /\ task_call[1].check_reached)

\* The API call raised, and the task was still verified.
C9_Witness ==
    /\ task_call # None
    /\ task_call[1].ai = "api_raises"
    /\ task_call[1].check_reached
    /\ task_call[1].ret

\* C13: check_task_completion returns True only when a lookup of the completed
\* marker found it: after a click on the confirm control the marker is looked
\* up once more and the result is that lookup's outcome, and with neither
\* marker nor control the result is False.
C13_TrueOnlyWithMarker ==
    (task_call # None /\ task_call[1].check_reached) =>
        (/\ task_call[1].ret => task_call[1].marker = "found"
         /\ task_call[1].confirm_clicked => task_call[1].marker_lookups = 2
         /\ (task_call[1].marker = "absent" /\ task_call[1].confirm = "absent")
               => ~ task_call[1].ret)

\* C14: no exception leaves a task step: a fault of a lookup inside
\* check_task_completion makes that step return False instead of raising.
C14_NoFaultLeavesAStep ==
    (task_call # None /\ task_call[1].check_reached) =>
        (/\ ~ task_call[1].check_raised
         /\ (task_call[1].marker = "fault" \/ task_call[1].confirm = "fault")
               => ~ task_call[1].ret)

(***************************************************************************)
(* The run of main(): src/main.py, with AirdropManager.__init__ and        *)
(* AirdropManager.complete_all_tasks.                                      *)
(***************************************************************************)
\* AirdropManager._load_completed_airdrops: the mapping it returns, or the fault
\* it lets through.  Only json.JSONDecodeError and FileNotFoundError are caught.
load_completed_airdrops(d, rd) ==
    IF d.kind = "missing" THEN [raised |-> FALSE, value |-> EmptyMapping]
    ELSE IF rd # "ok" THEN [raised |-> TRUE, value |-> EmptyMapping]
    ELSE IF d.kind = "malformed" THEN [raised |-> FALSE, value |-> EmptyMapping]
    ELSE [raised |-> FALSE, value |-> d.data]

\* What the open and the write of create_env_template can do.
TemplateWriteOutcomes == {"ok", "open_fails", "write_fails"}

\* A helper that writes the template whether or not the file exists.
create_env_template_overwrite(exists, wr) ==
    [ret |-> wr = "ok", written |-> wr = "ok", file |-> exists \/ wr # "open_fails"]

\* create_env_template(): ret is the value returned, written whether the
\* template text was written, file whether BASE_DIR/.env exists afterwards.
\* The file is opened for writing only when it does not exist; open(.., 'w')
\* creates it, so a write that fails after the open leaves an empty file.
create_env_template(exists, wr) ==
    IF exists THEN [ret |-> TRUE, written |-> FALSE, file |-> TRUE]
    ELSE IF wr = "ok" THEN [ret |-> TRUE, written |-> TRUE, file |-> TRUE]
    ELSE IF wr = "open_fails" THEN [ret |-> FALSE, written |-> FALSE, file |-> FALSE]
    ELSE [ret |-> FALSE, written |-> FALSE, file |-> TRUE]

\* Whether BASE_DIR/.env exists.
BaseEnvExists == IF base_env = "same" THEN env_file ELSE base_env = "present"

\* AirdropManager.complete_all_tasks(airdrop_name): the method's body is its
\* docstring alone, so it returns Python's None and touches nothing; ret is
\* the value returned, doc the document afterwards.
complete_all_tasks(airdrop_name, d) == [ret |-> None, doc |-> d]

MainInit ==
    /\ pc = "start"
    /\ env_file \in BOOLEAN
    /\ base_env \in {"same", "present", "absent"}
    /\ api_key \in BOOLEAN
    /\ template = None
    /\ browser = "none"
    /\ aborted = FALSE
    /\ success = None
    /\ cards \in Pages
    /\ requested \in RequestedNames
    /\ completed_airdrops = EmptyMapping
    /\ selection = None
    /\ doc \in {MissingDoc, MalformedDoc} \cup {ObjectDoc(m) : m \in Mappings({0})}
    /\ marked = <<>>
    /\ last_mark = None

MainIdle ==
    /\ pc = "idle"
    /\ env_file = FALSE
    /\ base_env = "same"
    /\ api_key = FALSE
    /\ template = None
    /\ browser = "none"
    /\ aborted = FALSE
    /\ success = None

\* main, lines 46-52: without ./.env or the API key, call
\* create_env_template (which looks at BASE_DIR/.env) and return.
MainMissingCredentials(wr) ==
    /\ pc = "start"
    /\ ~ env_file \/ ~ api_key
    /\ LET r == create_env_template(BaseEnvExists, wr)
       IN  /\ env_file' = IF base_env = "same" THEN r.file ELSE env_file
           /\ base_env' = IF base_env = "same" THEN "same"
                          ELSE IF r.file THEN "present" ELSE "absent"
           /\ template' = Some([existed |-> BaseEnvExists, cwd_existed |-> env_file,
                                wr |-> wr] @@ r)
    /\ pc' = "done"
    /\ UNCHANGED <<api_key, browser, aborted, success, selectVars, storeVars>>
    /\ UNCHANGED <<classifyVars, taskVars, concVars>>

\* What BrowserManager._setup_browser can do: ChromeDriverManager().install()
\* or webdriver.Chrome(...) raises when the driver cannot be fetched or Chrome
\* does not start.
LaunchOutcomes == {"ok", "raises"}

\* main, lines 54-56: BrowserManager(headless) launches the browser; a fault of
\* the constructor is raised before the with block is entered, so no driver
\* is there to quit, and main's except clause ends the run.
MainLaunchBrowser(launch) ==
    /\ pc = "start"
    /\ env_file /\ api_key
    /\ IF launch = "raises"
       THEN /\ aborted' = TRUE
            /\ pc' = "done"
            /\ UNCHANGED browser
       ELSE /\ browser' = "open"
            /\ pc' = "manager"
            /\ UNCHANGED aborted
    /\ UNCHANGED <<env_file, base_env, api_key, template, success, selectVars, storeVars>>
    /\ UNCHANGED <<classifyVars, taskVars, concVars>>

\* main, line 58: AirdropManager(browser) loads the completion mapping; a fault
\* leaves the with block (the browser quits) and is caught by main.
MainNewManager(rd) ==
    /\ pc = "manager"
    /\ LET r == load_completed_airdrops(doc, rd)
       IN  IF r.raised
           THEN /\ aborted' = TRUE
                /\ browser' = "closed"
                /\ pc' = "done"
                /\ UNCHANGED completed_airdrops
           ELSE /\ completed_airdrops' = r.value
                /\ pc' = "navigate"
                /\ UNCHANGED <<aborted, browser>>
    /\ UNCHANGED <<env_file, base_env, api_key, template, success, cards, requested, selection, storeVars>>
    /\ UNCHANGED <<classifyVars, taskVars, concVars>>

\* What browser.get(url) of navigate_to_listing can do.
NavigateOutcomes == {"ok", "raises"}

\* main, line 61: navigate_to_listing(args.url); a fault of driver.get leaves
\* the with block (the browser quits) and is caught by main.
MainNavigate(nav) ==
    /\ pc = "navigate"
    /\ IF nav = "raises"
       THEN /\ aborted' = TRUE
            /\ browser' = "closed"
            /\ pc' = "done"
       ELSE /\ pc' = "select"
            /\ UNCHANGED <<aborted, browser>>
    /\ UNCHANGED <<env_file, base_env, api_key, template, success, selectVars, storeVars>>
    /\ UNCHANGED <<classifyVars, taskVars, concVars>>

\* main, lines 64-66: select a campaign; `if airdrop_name:` sends a truthy
\* name on to complete_all_tasks, and None or an empty name to the else branch.
MainSelect(click_ok) ==
    /\ pc = "select"
    /\ LET r == select_airdrop(cards, completed_airdrops, requested, click_ok)
           s == select_airdrop_store(cards, completed_airdrops, doc, requested, click_ok)
       IN  /\ selection' = Some([click_ok |-> click_ok] @@ r)
           /\ completed_airdrops' = s.completed
           /\ doc' = s.doc
           /\ pc' = IF Truthy(r.ret) THEN "tasks" ELSE "exit"
    /\ UNCHANGED <<env_file, base_env, api_key, template, browser, aborted, success,
                   cards, requested, marked, last_mark>>
    /\ UNCHANGED <<classifyVars, taskVars, concVars>>

\* main, lines 66-73: complete the tasks of the selected campaign.
MainCompleteAllTasks ==
    /\ pc = "tasks"
    /\ LET r == complete_all_tasks(selection[1].ret[1], doc)
       IN  /\ success' = Some(r.ret)
           /\ doc' = r.doc
    /\ pc' = "exit"
    /\ UNCHANGED <<env_file, base_env, api_key, template, browser, aborted, selectVars, marked, last_mark>>
    /\ UNCHANGED <<classifyVars, taskVars, concVars>>

\* The with block ends: BrowserManager.__exit__ quits the driver.
MainExit ==
    /\ pc = "exit"
    /\ browser' = "closed"
    /\ pc' = "done"
    /\ UNCHANGED <<env_file, base_env, api_key, template, aborted, success, selectVars, storeVars>>
    /\ UNCHANGED <<classifyVars, taskVars, concVars>>

MainNext ==
    \/ \E wr \in TemplateWriteOutcomes : MainMissingCredentials(wr)
    \/ \E launch \in LaunchOutcomes : MainLaunchBrowser(launch)
    \/ \E rd \in ReadOutcomes : MainNewManager(rd)
    \/ \E nav \in NavigateOutcomes : MainNavigate(nav)
    \/ \E click_ok \in BOOLEAN : MainSelect(click_ok)
    \/ MainCompleteAllTasks
    \/ MainExit

\* C4: a run in which select_airdrop returned a campaign name ends with the
\* document holding a record for that campaign, with status success or partial.
C4_SelectedIsRecorded ==
    (pc = "done" /\ selection # None /\ selection[1].ret # None)
        => (/\ doc.kind = "object"
            /\ selection[1].ret[1] \in DOMAIN doc.data
            /\ doc.data[selection[1].ret[1]].status \in {"success", "partial"})

\* C10: constructing the manager never lets a fault through: the step
\* AirdropManager(browser) does not end in main's except clause, and the run
\* goes on to the navigation with the manager holding a mapping.
C10_LoadNeverRaises ==
    [][pc = "manager" => (~ aborted' /\ pc' = "navigate")]_vars

\* One process: an AirdropManager constructed over the document, then calls of
\* mark_airdrop_completed and a call of select_airdrop on that manager.
SessionInit ==
    /\ doc \in {MissingDoc, MalformedDoc} \cup {ObjectDoc(m) : m \in Mappings({0})}
    /\ marked = [n \in RecordedNames |-> None]
    /\ last_mark = None
    /\ cards \in Pages
    /\ requested \in SessionRequests
    /\ completed_airdrops = load_completed_airdrops(doc, "ok").value
    /\ selection = None

SessionNext ==
    \/ \E n \in RecordedNames, st \in Statuses :
          MarkAirdropCompleted(n, st, MaxDate, "ok", "ok")
    \/ \E click_ok \in BOOLEAN : SelectAirdrop(click_ok)

\* C16: a select_airdrop call made after mark_airdrop_completed succeeded for
\* the campaign the call resolves to returns None and clicks nothing.
C16_MarkedIsSkipped ==
    [][(/\ selection = None /\ selection' # None
        /\ Len(ListedAirdrops) > 0
        /\ LET name == ListedAirdrops[IF Truthy(requested) /\ CaseInsensitiveMatches # {}
                                      THEN Min(CaseInsensitiveMatches) ELSE 1].name
           IN  /\ name \in DOMAIN marked
               /\ marked[name] # None
               /\ name \in Keys(doc))
          => (selection'[1].ret = None /\ selection'[1].clicks = <<>>)]_vars

\* C12 as stated: a run of main that starts without ./.env or without the
\* API key writes the credential template and returns with no browser
\* launched and no campaign selected.
C12_TemplateIsWritten ==
    /\ (pc # "start" /\ template = None) => (env_file /\ api_key)
    /\ template # None =>
          (/\ template[1].written
           /\ pc = "done" /\ browser = "none" /\ selection = None)

\* C12 amended: such a run calls create_env_template and returns with no
\* browser launched and no campaign selected; the template is written exactly
\* when BASE_DIR/.env did not exist and the open and write succeed, and an
\* existing BASE_DIR/.env is left as it is.
C12_TemplateOnlyWhenAbsent ==
    /\ (pc # "start" /\ template = None) => (env_file /\ api_key)
    /\ template # None =>
          (/\ template[1].written = (~ template[1].existed /\ template[1].wr = "ok")
           /\ template[1].existed => (BaseEnvExists /\ template[1].ret)
           /\ template[1].written => BaseEnvExists
           /\ pc = "done" /\ browser = "none" /\ selection = None
           /\ completed_airdrops = EmptyMapping)

\* The tool is run from BASE_DIR, .env exists but the API key is not set: main
\* returned without a browser and the file was not rewritten.
C12_Witness ==
    /\ template # None
    /\ base_env = "same"
    /\ template[1].existed
    /\ template[1].cwd_existed
    /\ ~ api_key
    /\ ~ template[1].written
    /\ pc = "done"
    /\ browser = "none"

\* C11: a call of select_airdrop changes neither the manager's completion
\* mapping nor the persisted document, whatever it returns.
C11_SelectLeavesStoreAlone ==
    [][pc = "select" => (completed_airdrops' = completed_airdrops /\ doc' = doc)]_vars

\* The sole candidate is recorded in the document the manager loaded, the call
\* returned None without a click, and the run has ended.
C11_Witness ==
    /\ pc = "done"
    /\ selection # None
    /\ Len(ListedAirdrops) = 1
    /\ doc.kind = "object"
    /\ ListedAirdrops[1].name \in DOMAIN doc.data
    /\ completed_airdrops = doc.data
    /\ selection[1].ret = None
    /\ selection[1].clicks = <<>>

InitClassify == ClassifyInit /\ SelectIdle /\ StoreIdle /\ MainIdle /\ TaskIdle /\ ConcIdle
InitSelect == SelectInit /\ ClassifyIdle /\ StoreIdle /\ MainIdle /\ TaskIdle /\ ConcIdle
InitStore == StoreInit /\ ClassifyIdle /\ SelectIdle /\ MainIdle /\ TaskIdle /\ ConcIdle
InitTask == TaskInit /\ ClassifyIdle /\ SelectIdle /\ StoreIdle /\ MainIdle /\ ConcIdle
InitConc == ConcInit /\ ClassifyIdle /\ SelectIdle /\ MainIdle /\ TaskIdle
InitSession == SessionInit /\ ClassifyIdle /\ MainIdle /\ TaskIdle /\ ConcIdle
Init == MainInit /\ ClassifyIdle /\ TaskIdle /\ ConcIdle
Next == MainNext

\* The classifier applied to task texts.
SpecClassify == InitClassify /\ [][ClassifyNext]_vars

\* select_airdrop applied to a listing page.
SpecSelect == InitSelect /\ [][SelectNext]_vars

\* The completion store under mark_airdrop_completed calls whose reads and
\* rewrites of the document do not fault.
SpecStoreOk == InitStore /\ [][StoreOkNext]_vars

\* The completion store under mark_airdrop_completed calls whose read or
\* rewrite of the document may fault.
SpecStore == InitStore /\ [][StoreNext]_vars

\* One process that marks campaigns and selects on the manager it built.
SpecSession == InitSession /\ [][SessionNext]_vars

\* Two processes, each in one mark_airdrop_completed call on the same document.
SpecConc == InitConc /\ [][ConcNext]_vars

\* The task strategies' complete_task on a browser with its primary window.
SpecTask == InitTask /\ [][TaskNext]_vars

\* The run of main().
Spec == Init /\ [][Next]_vars

====
